---- MODULE Spec2Model ----
(***************************************************************************)
(* Model of the download / compress / deliver pipeline of the bot          *)
(* (src/main.py, src/config.py).                                           *)
(*                                                                         *)
(* Every handler is a coroutine.  A coroutine only yields at an `await`,   *)
(* so one action of the model is the code between two awaits: it starts    *)
(* with the outcome of the awaited Telegram call (ok, or an exception) and *)
(* runs the synchronous code up to the next await.  yt-dlp and ffmpeg are  *)
(* called synchronously (blocking), hence inside one action.               *)
(*                                                                         *)
(* The session store is keyed by chat_id and every file name starts with   *)
(* the chat_id, so handlers of different requesters touch disjoint keys    *)
(* and disjoint files.  The pipeline is therefore modelled for one         *)
(* requester, with up to two of its quality selections in flight at once   *)
(* and any number of URL messages in between.                              *)
(***************************************************************************)
EXTENDS Integers, Sequences, FiniteSets, TLC

\* ------------------------------------------------------------------ bounds
MaxRuns == 2          \* quality selections (callback queries) delivered
MaxFormats == 4       \* length of a raw format list
MaxMinutes == 30      \* probed durations: whole minutes up to this many
MaxHooks == 4         \* progress-hook invocations during one download
MaxEvents == 3        \* SpecRender: progress-hook invocations of the run's download

\* ------------------------------------------------------- program constants
TELEGRAM_FILE_LIMIT_MB == 50
TARGET_COMPRESSED_SIZE_MB == 45
MB == 1048576         \* 1024 * 1024, bytes per MB
audio_bitrate == 128
MIN_VIDEO_BITRATE == 100
RATE_LIMIT_S == 10    \* line 454: seconds between progress notifications
BAR_SEGMENTS == 20    \* line 462
SEGMENT_PERCENT == 5  \* line 462: percent per filled segment

\* --------------------------------------------------------------- universes
Chats == {"c1"}
Urls == {"u1", "u2"}
Qualities == {"720", "audio"}
Runs == {1, 2}      \* handlers of quality selections in flight at once

NoPath == <<>>
None == <<>>          \* Python None for an optional number: <<>> or <<n>>

\* sizes in bytes that os.path.getsize can report for a finished download
DownloadSizes == {50 * MB, 50 * MB + 1}
\* sizes in bytes of a complete encoder output
CompressedSizes == {50 * MB, 50 * MB + 1}
\* what ffprobe prints, in milliseconds; None when the probe fails
ProbeResults == {None, <<0>>, <<300000>>}

VARIABLES
    user_video_info,  \* chat_id -> {url, title, formats}       (main.py:25)
    fs,               \* the download folder: path -> size in bytes
    task,             \* one frame of handle_quality_selection per callback query
    reply,            \* SpecCatalog: what handle_url rendered
    nRuns,            \* callback queries dispatched so far
    formats,          \* SpecCatalog: a raw format list (info['formats'])
    video_formats,    \* SpecCatalog: handle_url's dict height -> entry
    keyboard,         \* SpecCatalog: handle_url's keyboard, top to bottom
    calc,             \* SpecCalc: one call of compress_video
    progress,         \* SpecProgress: one call of download_video_with_progress
    render            \* SpecRender: one run, its edits of the chat message in flight

vars == <<user_video_info, fs, task, reply, nRuns, formats, video_formats, keyboard, calc, progress, render>>

\* ------------------------------------------------------------- file system
exists(f, path) == path \in DOMAIN f

remove(f, path) == [p \in DOMAIN f \ {path} |-> f[p]]

write(f, path, size) == [p \in DOMAIN f \cup {path} |-> IF p = path THEN size ELSE f[p]]

\* del user_video_info[chat_id]
del(d, k) == [c \in DOMAIN d \ {k} |-> d[c]]

\* ----------------------------------------------------- truthiness, int()
\* `if not duration` / `if height`: None and 0 are both falsy
truthy(x) == x # None /\ x[1] # 0

Abs(n) == IF n < 0 THEN -n ELSE n

\* int(n / d): Python's int() truncates toward zero
py_int(n, d) == IF (n >= 0) = (d > 0) THEN Abs(n) \div Abs(d) ELSE -(Abs(n) \div Abs(d))

py_max(a, b) == IF a >= b THEN a ELSE b

\* ------------------------------------------------------- bitrate (86-92)
\* int((target_size_mb * 8192) / duration), duration = duration_ms / 1000 s
target_total_bitrate(target_size_mb, duration_ms) ==
    py_int(target_size_mb * 8192 * 1000, duration_ms)

\* line 92 without the max(..., 100)
video_bitrate_nofloor(target_size_mb, duration_ms) ==
    target_total_bitrate(target_size_mb, duration_ms) - audio_bitrate

video_bitrate(target_size_mb, duration_ms) ==
    py_max(target_total_bitrate(target_size_mb, duration_ms) - audio_bitrate,
           MIN_VIDEO_BITRATE)

\* --------------------------------------------------- get_video_duration
\* ffprobe on file_path; any failure (missing file, unparsable output) is None
get_video_duration(f, file_path, probe) ==
    IF exists(f, file_path) THEN probe ELSE None

\* ------------------------------------------------------- compress_video
\* What one encoder process can do: its exit, and what it leaves at the output
\* path (NoOutput: nothing written; otherwise the size written, -y overwrites).
NoOutput == -1
PartialOutput == MB
EncoderOutcomes ==
    [exit : {"zero"}, out : CompressedSizes \cup {NoOutput}]
    \cup [exit : {"nonzero", "timeout"}, out : {NoOutput, PartialOutput}]

\* lines 78-128, the body of the try block: what it returns, or the exception
\* that leaves it (exc, "" if none), the folder afterwards and the video
\* bitrates of the encoder invocations made
compress_video_body(f, input_path, output_path, target_size_mb, probe, enc) ==
    LET duration == get_video_duration(f, input_path, probe) IN
    IF ~truthy(duration)
    THEN [ret |-> FALSE, exc |-> "", fs |-> f, cmd |-> <<>>]
    ELSE LET vb == video_bitrate(target_size_mb, duration[1])
             f2 == IF enc.out = NoOutput THEN f ELSE write(f, output_path, enc.out)
         IN  [ret |-> enc.exit = "zero",
              exc |-> CASE enc.exit = "timeout" -> "TimeoutExpired"
                        [] enc.exit = "zero" /\ ~exists(f2, output_path) -> "OSError"
                        [] OTHER -> "",
              fs  |-> f2,
              cmd |-> <<vb>>]

\* lines 130-135 with only the `except subprocess.TimeoutExpired` clause
compress_video_no_catch_all(f, input_path, output_path, target_size_mb, probe, enc) ==
    LET b == compress_video_body(f, input_path, output_path, target_size_mb, probe, enc) IN
    [ret |-> b.exc = "" /\ b.ret, raised |-> b.exc \notin {"", "TimeoutExpired"},
     fs |-> b.fs, cmd |-> b.cmd]

\* lines 77-135: the body inside try / except TimeoutExpired / except Exception.
\* returns [ret |-> the bool returned, raised |-> an exception reached the caller,
\*          fs |-> the folder afterwards, cmd |-> as in the body]
compress_video(f, input_path, output_path, target_size_mb, probe, enc) ==
    LET b == compress_video_body(f, input_path, output_path, target_size_mb, probe, enc) IN
    [ret |-> b.exc = "" /\ b.ret, raised |-> FALSE, fs |-> b.fs, cmd |-> b.cmd]

\* ------------------------------------------- download_video_with_progress
Ext(quality) == IF quality = "audio" THEN ".mp3" ELSE ".mp4"

\* os.path.join(DOWNLOAD_FOLDER, f"{chat_id}_%(title)s.%(ext)s")
output_path(chat_id, title, quality) == <<chat_id, title, Ext(quality)>>

\* the file yt-dlp leaves behind when a transfer is interrupted
part_path(chat_id, title) == <<chat_id, title, ".part">>

\* file_path.rsplit('.', 1)[0] + '_compressed.mp4'
compressed_path_of(file_path) == <<file_path[1], file_path[2], "_compressed.mp4">>

\* What the retrieval library can do: finish (the file has `size` bytes), raise
\* (possibly leaving a partial file), or name a file that is not there.
DownloadOutcomes ==
    [kind : {"ok"}, size : DownloadSizes, partial : {FALSE}]
    \cup [kind : {"raise"}, size : {0}, partial : BOOLEAN]
    \cup [kind : {"missing"}, size : {0}, partial : {FALSE}]

\* returns [ret |-> filename or NoPath (None), fs |-> the folder afterwards]
download_video_with_progress(f, title, quality, chat_id, out) ==
    LET filename == output_path(chat_id, title, quality) IN
    CASE out.kind = "ok" ->
            [ret |-> filename, fs |-> write(f, filename, out.size)]
      [] out.kind = "raise" ->
            [ret |-> NoPath,
             fs  |-> IF out.partial THEN write(f, part_path(chat_id, title), MB) ELSE f]
      [] out.kind = "missing" ->
            [ret |-> filename, fs |-> f]

\* ---------------------------------------------- progress_hook (451-468)
\* line 454 with the test left out
due_always(current_time, last_update) == TRUE

\* line 454: current_time - progress_data['last_update'] > 10
due(current_time, last_update) == current_time - last_update > RATE_LIMIT_S

\* line 458: d.get('total_bytes') or d.get('total_bytes_estimate', 0)
\* (an absent key and a None value are both falsy)
total_of(d) == IF truthy(d.total_bytes) THEN d.total_bytes ELSE d.total_bytes_estimate

\* the length of  s * n  for a one-character s: a negative n gives ''
repeat_len(n) == IF n < 0 THEN 0 ELSE n

\* line 462: the two runs of characters of the bar, percent = downloaded/total*100
\* and int(percent / 5) = int(downloaded * 100 / (total * 5))
progress_bar(downloaded, total) ==
    LET filled == py_int(downloaded * 100, total * SEGMENT_PERCENT) IN
    [filled |-> repeat_len(filled), empty |-> repeat_len(BAR_SEGMENTS - filled)]

\* one invocation of progress_hook(d) at clock time current_time:
\* last_update afterwards, and the notifications it scheduled (none or one)
progress_hook(last_update, d, current_time) ==
    IF d.status # "downloading" \/ ~due(current_time, last_update)
    THEN [last_update |-> last_update, emitted |-> <<>>]
    ELSE LET total == total_of(d) IN
         [last_update |-> current_time,
          emitted |-> IF truthy(total)
                      THEN <<[time |-> current_time,
                              downloaded |-> d.downloaded_bytes,
                              total |-> total[1],
                              bar |-> progress_bar(d.downloaded_bytes, total[1])]>>
                      ELSE <<>>]

\* ------------------------------------------------- handle_url: the catalog
\* fmt.get('filesize') or fmt.get('filesize_approx') or 0
filesize_of(fmt) ==
    IF truthy(fmt.filesize) THEN fmt.filesize[1]
    ELSE IF truthy(fmt.filesize_approx) THEN fmt.filesize_approx[1]
    ELSE 0

\* lines 252-254 without the `height not in video_formats` test
accepts_last_wins(fmt, seen) ==
    /\ fmt.vcodec # "none"
    /\ fmt.acodec # "none"
    /\ truthy(fmt.height)

\* lines 252-254: both streams, a truthy height, height not seen yet
accepts(fmt, seen) ==
    /\ fmt.vcodec # "none"
    /\ fmt.acodec # "none"
    /\ truthy(fmt.height)
    /\ fmt.height[1] \notin DOMAIN seen

\* the loop of lines 251-260 over fmts, starting from the dict `seen`
RECURSIVE collect_formats(_, _)
collect_formats(fmts, seen) ==
    IF fmts = <<>> THEN seen
    ELSE LET fmt == Head(fmts) IN
         collect_formats(Tail(fmts),
            IF accepts(fmt, seen)
            THEN [h \in DOMAIN seen \cup {fmt.height[1]} |->
                    IF h = fmt.height[1]
                    THEN [format_id |-> fmt.format_id,
                          filesize  |-> filesize_of(fmt),
                          ext       |-> fmt.ext]
                    ELSE seen[h]]
            ELSE seen)

SetMax(S) == CHOOSE m \in S : \A x \in S : x <= m

\* sorted(video_formats.keys(), reverse=True)
RECURSIVE sorted_reverse(_)
sorted_reverse(S) ==
    IF S = {} THEN <<>>
    ELSE <<SetMax(S)>> \o sorted_reverse(S \ {SetMax(S)})

\* lines 268-285: one button per height; the wrench marks size_mb > limit
quality_button(height, fmt_data) ==
    [data     |-> <<"quality", "video">>,
     height   |-> height,
     filesize |-> fmt_data.filesize,
     emoji    |-> IF fmt_data.filesize # 0
                      /\ fmt_data.filesize > TELEGRAM_FILE_LIMIT_MB * MB
                  THEN "compress" ELSE "direct"]

\* line 288
audio_button ==
    [data |-> <<"quality", "audio">>, height |-> 0, filesize |-> 0, emoji |-> "audio"]

\* lines 263-288
build_keyboard(vf) ==
    LET sorted_qualities == sorted_reverse(DOMAIN vf) IN
    [i \in 1..Len(sorted_qualities) |->
        quality_button(sorted_qualities[i], vf[sorted_qualities[i]])]
    \o <<audio_button>>

\* the info dict of get_video_info: ok = FALSE is None (any failure)
NoInfo == [ok |-> FALSE, title |-> "", formats |-> <<>>]

\* the title the extractor reports for a URL
TitleOf(url) == IF url = "u1" THEN "t1" ELSE "t2"

\* lines 232-314 of handle_url on the fetched info: the session store after it,
\* what is rendered, and the catalog it built
handle_url(uvi, c, url, info) ==
    IF ~info.ok
    THEN [uvi |-> uvi, reply |-> "MetadataUnavailable",
          video_formats |-> <<>>, keyboard |-> <<>>]
    ELSE LET stored == [k \in DOMAIN uvi \cup {c} |->
                           IF k = c
                           THEN [url |-> url, title |-> info.title,
                                 formats |-> info.formats]
                           ELSE uvi[k]]
             vf == collect_formats(info.formats, <<>>)
             kb == build_keyboard(vf)
         IN  [uvi |-> stored,
              reply |-> IF Len(kb) <= 1 THEN "NoOptions" ELSE "VariantOffered",
              video_formats |-> vf, keyboard |-> kb]

\* ------------------------------------------- handle_quality_selection
\* line 353: file_size_mb > TELEGRAM_FILE_LIMIT_MB, file_size_mb = bytes / 2^20
\* (the division by a power of two is exact, so this is a comparison of bytes)
needs_compression_ge(file_size) == file_size >= TELEGRAM_FILE_LIMIT_MB * MB   \* with >=

needs_compression(file_size) == file_size > TELEGRAM_FILE_LIMIT_MB * MB

\* line 377, on the compressed file's size
still_too_large_never(file_size) == FALSE     \* with the test left out

still_too_large(file_size) == file_size > TELEGRAM_FILE_LIMIT_MB * MB

IdleTask ==
    [pc |-> "idle", chat_id |-> "", quality_data |-> "", url |-> "", title |-> "",
     file_path |-> NoPath, file_size |-> 0, log |-> <<>>, cmd |-> <<>>,
     raised_at |-> ""]

\* an exception inside the try block: control goes to line 441
raise(t, at) == [t EXCEPT !.pc = "error_msg", !.raised_at = at]

\* an exception outside the try block, or a return: the handler is over and
\* its frame is gone
finish(t, outcome) == IdleTask

\* os.remove(file_path); del user_video_info[chat_id]; (return)
\* either statement can raise (FileNotFoundError, KeyError)
cleanup(f, uvi, t, outcome) ==
    IF ~exists(f, t.file_path)
    THEN [fs |-> f, uvi |-> uvi, t |-> raise(t, t.pc)]
    ELSE IF t.chat_id \notin DOMAIN uvi
    THEN [fs |-> remove(f, t.file_path), uvi |-> uvi, t |-> raise(t, t.pc)]
    ELSE [fs |-> remove(f, t.file_path), uvi |-> del(uvi, t.chat_id),
          t |-> finish(t, outcome)]

\* lines 441-443 with the file and the Session cleaned up as on the other paths
except_block_cleanup(f, uvi, t) ==
    [fs |-> remove(f, t.file_path), uvi |-> del(uvi, t.chat_id),
     t |-> finish(t, "Error")]

\* lines 441-443: log, report; nothing is deleted, nothing is cleared
except_block(f, uvi, t) ==
    [fs |-> f, uvi |-> uvi,
     t |-> finish(t, IF t.raised_at = "sending" THEN "UploadFailed" ELSE "Error")]

\* line 324
has_session_always(uvi, c) == TRUE            \* with the test left out

has_session(uvi, c) == c \in DOMAIN uvi

\* lines 322-338, after query.answer() returned
after_answer(uvi, t) ==
    IF ~has_session(uvi, t.chat_id)
    THEN [t EXCEPT !.pc = "expired_msg"]
    ELSE IF t.chat_id \notin DOMAIN uvi      \* line 328 would raise KeyError
    THEN finish(t, "Raised")
    ELSE [t EXCEPT !.pc = "downloading_msg",
                   !.url = uvi[t.chat_id].url,
                   !.title = uvi[t.chat_id].title]

\* lines 342-360 and 406: the download, the existence check, the size check
download_stage(f, t, out) ==
    LET d == download_video_with_progress(f, TitleOf(t.url), t.quality_data,
                                          t.chat_id, out)
        t1 == [t EXCEPT !.log = Append(@, "download"), !.file_path = d.ret]
    IN  IF d.ret = NoPath \/ ~exists(d.fs, d.ret)
        THEN [fs |-> d.fs, t |-> [t1 EXCEPT !.pc = "dlfailed_msg"]]
        ELSE LET size == d.fs[d.ret] IN
             [fs |-> d.fs,
              t  |-> [t1 EXCEPT !.file_size = size,
                                !.pc = IF needs_compression(size)
                                       THEN "compressing_msg"
                                       ELSE "uploading_msg"]]

\* lines 371-374 with the original kept on disk
adopt_compressed_keep_original(f, t, compressed_path) ==
    [fs |-> f,
     t  |-> [t EXCEPT !.file_path = compressed_path,
                      !.file_size = f[compressed_path]]]

\* lines 368-374: delete the original, adopt the compressed file and its size
adopt_compressed(f, t, compressed_path) ==
    [fs |-> remove(f, t.file_path),
     t  |-> [t EXCEPT !.log = Append(@, "remove_original"),
                      !.file_path = compressed_path,
                      !.file_size = f[compressed_path]]]

\* lines 362-403, up to the next await
compress_stage(f, t, probe, enc) ==
    LET compressed_path == compressed_path_of(t.file_path)
        c == compress_video(f, t.file_path, compressed_path,
                            TARGET_COMPRESSED_SIZE_MB, probe, enc)
        t1 == [t EXCEPT !.log = Append(@, "compress"), !.cmd = c.cmd]
    IN  IF c.ret /\ exists(c.fs, compressed_path)
        THEN LET a == adopt_compressed(c.fs, t1, compressed_path) IN
             [fs |-> a.fs,
              t  |-> [a.t EXCEPT !.pc = IF still_too_large(a.t.file_size)
                                        THEN "toolarge_msg"
                                        ELSE "uploading_msg"]]
        ELSE [fs |-> c.fs, t |-> [t1 EXCEPT !.pc = "compfailed_msg"]]

\* lines 412-429: open(file_path, 'rb'), then the send is awaited
upload_stage(f, t) ==
    IF ~exists(f, t.file_path)
    THEN raise(t, "open")
    ELSE [t EXCEPT !.pc = "sending", !.log = Append(@, "upload")]

\* ------------------------------------------------------------ the inputs
FormatOf(id, v, a, h) ==
    [format_id |-> id, vcodec |-> v, acodec |-> a, height |-> h,
     filesize |-> None, filesize_approx |-> <<id * 30 * MB>>, ext |-> "mp4"]

\* what get_video_info can return in the pipeline runs: nothing (any failure),
\* or the video's info with one 720p combined format; for u2 also an info with
\* no combined format
InfoResults(url) ==
    {NoInfo,
     [ok |-> TRUE, title |-> TitleOf(url),
      formats |-> <<FormatOf(1, "avc1", "mp4a", <<720>>)>>]}
    \cup (IF url = "u2"
          THEN {[ok |-> TRUE, title |-> TitleOf(url),
                 formats |-> <<FormatOf(1, "none", "mp4a", None)>>]}
          ELSE {})

\* one call of compress_video that has not been made
NoCall == [probe |-> None, target_size_mb |-> 0, called |-> FALSE,
           ret |-> FALSE, raised |-> FALSE, cmd |-> <<>>, exit |-> "", out |-> NoOutput]

\* no download in progress
NoDownload == [clock |-> 0, last_update |-> 0, hooks |-> 0, streams |-> 0,
               stream |-> 0, downloaded |-> 0, notes |-> <<>>]

\* no run whose messages are followed
NoRender == [pc |-> "idle", status |-> "", scheduled |-> <<>>, inflight |-> {},
             rendered |-> <<>>]

\* ------------------------------------------------------------------ Init
Init ==
    /\ user_video_info = <<>>
    /\ fs = <<>>
    /\ task = [r \in Runs |-> IdleTask]
    /\ reply = ""
    /\ nRuns = 0
    /\ formats = <<>>
    /\ video_formats = <<>>
    /\ keyboard = <<>>
    /\ calc = NoCall
    /\ progress = NoDownload
    /\ render = NoRender

\* --------------------------------------------------------------- actions
\* handle_url on a URL message of chat c.  Of the handler only the session
\* store outlives the call; what it renders is followed in SpecCatalog.
HandleUrl(c, url, info) ==
    /\ user_video_info' = handle_url(user_video_info, c, url, info).uvi
    /\ UNCHANGED <<fs, task, reply, nRuns, formats, video_formats, keyboard, calc, progress, render>>

\* a callback query of chat c is dispatched: the handler runs to line 320
Callback(r, c, q) ==
    /\ nRuns < MaxRuns
    /\ nRuns' = nRuns + 1
    /\ task[r].pc = "idle"
    /\ \A s \in 1..(r - 1) : task[s].pc # "idle"
    /\ task' = [task EXCEPT ![r] = [IdleTask EXCEPT !.pc = "answer", !.chat_id = c,
                                             !.quality_data = q]]
    /\ UNCHANGED <<user_video_info, fs, reply, formats,
                   video_formats, keyboard, calc, progress, render>>

\* line 320 resumes, then lines 322-338.  (If query.answer() raises, the
\* handler ends before it has read or written anything: that run is the same
\* as a callback query that was never dispatched.)
Answered(r) ==
    /\ task[r].pc = "answer"
    /\ task' = [task EXCEPT ![r] = after_answer(user_video_info, @)]
    /\ UNCHANGED <<user_video_info, fs, reply, nRuns, formats,
                   video_formats, keyboard, calc, progress, render>>

\* line 325 resumes; line 326 returns
ExpiredReported(r) ==
    /\ task[r].pc = "expired_msg"
    /\ task' = [task EXCEPT ![r] = finish(@, "SessionExpired")]
    /\ UNCHANGED <<user_video_info, fs, reply, nRuns, formats,
                   video_formats, keyboard, calc, progress, render>>

\* line 333 resumes (outside the try block); then lines 340-360 / 406
Downloaded(r, ok, out) ==
    /\ task[r].pc = "downloading_msg"
    /\ IF ok
       THEN LET d == download_stage(fs, task[r], out) IN
            /\ fs' = d.fs
            /\ task' = [task EXCEPT ![r] = d.t]
       ELSE /\ task' = [task EXCEPT ![r] = finish(@, "Raised")]
            /\ fs' = fs
    /\ UNCHANGED <<user_video_info, reply, nRuns, formats,
                   video_formats, keyboard, calc, progress, render>>

\* line 345 resumes; line 346 returns
DownloadFailedReported(r, ok) ==
    /\ task[r].pc = "dlfailed_msg"
    /\ task' = [task EXCEPT ![r] =
                  IF ok THEN finish(@, "DownloadFailed") ELSE raise(@, @.pc)]
    /\ UNCHANGED <<user_video_info, fs, reply, nRuns, formats,
                   video_formats, keyboard, calc, progress, render>>

\* line 354 resumes; then lines 362-403 up to the next await
Compressed(r, ok, probe, enc) ==
    /\ task[r].pc = "compressing_msg"
    /\ IF ok
       THEN LET c == compress_stage(fs, task[r], probe, enc) IN
            /\ fs' = c.fs
            /\ task' = [task EXCEPT ![r] = c.t]
       ELSE /\ task' = [task EXCEPT ![r] = raise(@, @.pc)]
            /\ fs' = fs
    /\ UNCHANGED <<user_video_info, reply, nRuns, formats,
                   video_formats, keyboard, calc, progress, render>>

\* a report was awaited and the cleanup follows it:
\*   toolarge_msg   line 378 resumes, lines 387-389
\*   compfailed_msg line 392 resumes, lines 401-403
\*   success_msg    line 431 resumes, lines 438-439
ReportedThenCleanup(r, ok, at, outcome) ==
    /\ task[r].pc = at
    /\ IF ok
       THEN LET k == cleanup(fs, user_video_info, task[r], outcome) IN
            /\ fs' = k.fs
            /\ user_video_info' = k.uvi
            /\ task' = [task EXCEPT ![r] = k.t]
       ELSE /\ task' = [task EXCEPT ![r] = raise(@, @.pc)]
            /\ UNCHANGED <<fs, user_video_info>>
    /\ UNCHANGED <<reply, nRuns, formats, video_formats, keyboard, calc, progress, render>>

StillTooLargeReported(r, ok) == ReportedThenCleanup(r, ok, "toolarge_msg", "StillTooLarge")

CompressionFailedReported(r, ok) ==
    ReportedThenCleanup(r, ok, "compfailed_msg", "CompressionFailed")

SuccessReported(r, ok) == ReportedThenCleanup(r, ok, "success_msg", "Delivered")

\* line 406 resumes; lines 412-429 up to the awaited send
UploadStarted(r, ok) ==
    /\ task[r].pc = "uploading_msg"
    /\ task' = [task EXCEPT ![r] = IF ok THEN upload_stage(fs, @) ELSE raise(@, @.pc)]
    /\ UNCHANGED <<user_video_info, fs, reply, nRuns, formats,
                   video_formats, keyboard, calc, progress, render>>

\* send_audio / send_video resumes (lines 414, 423); line 431 is awaited next
Sent(r, ok) ==
    /\ task[r].pc = "sending"
    /\ task' = [task EXCEPT ![r] =
                  IF ok THEN [@ EXCEPT !.pc = "success_msg"] ELSE raise(@, @.pc)]
    /\ UNCHANGED <<user_video_info, fs, reply, nRuns, formats,
                   video_formats, keyboard, calc, progress, render>>

\* line 443 resumes and the handler ends
ErrorReported(r) ==
    /\ task[r].pc = "error_msg"
    /\ LET e == except_block(fs, user_video_info, task[r]) IN
        /\ fs' = e.fs
        /\ user_video_info' = e.uvi
        /\ task' = [task EXCEPT ![r] = e.t]
    /\ UNCHANGED <<reply, nRuns, formats, video_formats, keyboard, calc, progress, render>>

Next ==
    \/ \E c \in Chats, url \in Urls : \E info \in InfoResults(url) : HandleUrl(c, url, info)
    \/ \E r \in Runs, c \in Chats, q \in Qualities : Callback(r, c, q)
    \/ \E r \in Runs : Answered(r)
    \/ \E r \in Runs : ExpiredReported(r)
    \/ \E r \in Runs, ok \in BOOLEAN, out \in DownloadOutcomes : Downloaded(r, ok, out)
    \/ \E r \in Runs, ok \in BOOLEAN : DownloadFailedReported(r, ok)
    \/ \E r \in Runs, ok \in BOOLEAN, probe \in ProbeResults, enc \in EncoderOutcomes :
          Compressed(r, ok, probe, enc)
    \/ \E r \in Runs, ok \in BOOLEAN : StillTooLargeReported(r, ok)
    \/ \E r \in Runs, ok \in BOOLEAN : CompressionFailedReported(r, ok)
    \/ \E r \in Runs, ok \in BOOLEAN : UploadStarted(r, ok)
    \/ \E r \in Runs, ok \in BOOLEAN : Sent(r, ok)
    \/ \E r \in Runs, ok \in BOOLEAN : SuccessReported(r, ok)
    \/ \E r \in Runs : ErrorReported(r)

Spec == Init /\ [][Next]_vars

\* ------------------------------------------------- the catalog on its own
\* every raw format list of up to MaxFormats formats: each format has both
\* streams, no audio or no video, and a height of None, 480, 720 or 1080;
\* format_id is the position in the list
Codecs == {<<"avc1", "mp4a">>, <<"avc1", "none">>, <<"none", "mp4a">>}
Heights == {None, <<480>>, <<720>>, <<1080>>}

FormatList(n, k) == [i \in 1..n |-> FormatOf(i, k[i][1][1], k[i][1][2], k[i][2])]

InitCatalog ==
    /\ user_video_info = <<>>
    /\ fs = <<>>
    /\ task = [r \in Runs |-> IdleTask]
    /\ reply = ""
    /\ nRuns = 0
    /\ \E n \in 0..MaxFormats : \E k \in [1..n -> Codecs \X Heights] :
          formats = FormatList(n, k)
    /\ video_formats = <<>>
    /\ keyboard = <<>>
    /\ calc = NoCall
    /\ progress = NoDownload
    /\ render = NoRender

\* handle_url on a URL whose info carries the format list `formats`
HandleUrlCatalog(c, url) ==
    /\ reply = ""
    /\ LET h == handle_url(user_video_info, c, url,
                           [ok |-> TRUE, title |-> TitleOf(url), formats |-> formats]) IN
        /\ user_video_info' = h.uvi
        /\ reply' = h.reply
        /\ video_formats' = h.video_formats
        /\ keyboard' = h.keyboard
    /\ UNCHANGED <<fs, task, nRuns, formats, calc, progress, render>>

NextCatalog == \E c \in Chats : HandleUrlCatalog(c, "u1")

SpecCatalog == InitCatalog /\ [][NextCatalog]_vars

\* ------------------------------------------- compress_video on its own
\* what ffprobe can print (milliseconds): nothing, zero, negative, a fraction
\* of a second, whole minutes, and the durations around the 100 kbps floor
CalcProbes ==
    {None, <<0>>, <<-2000>>, <<1>>, <<999>>, <<1000>>, <<300000>>, <<600000>>,
     <<1609781>>, <<1609782>>, <<1616842>>, <<1616843>>}
    \cup {<<m * 60000>> : m \in 1..MaxMinutes}

CalcTargets == {1, TARGET_COMPRESSED_SIZE_MB, TELEGRAM_FILE_LIMIT_MB}

calc_input == <<"c1", "t1", ".mp4">>

InitCalc ==
    /\ user_video_info = <<>>
    /\ fs = <<>>
    /\ task = [r \in Runs |-> IdleTask]
    /\ reply = ""
    /\ nRuns = 0
    /\ formats = <<>>
    /\ video_formats = <<>>
    /\ keyboard = <<>>
    /\ calc \in [probe : CalcProbes, target_size_mb : CalcTargets, called : {FALSE},
                 ret : {FALSE}, raised : {FALSE}, cmd : {<<>>}, exit : {""},
                 out : {NoOutput}]
    /\ progress = NoDownload
    /\ render = NoRender

\* compress_video(input, output, target) on an input file that exists
CompressCall(enc) ==
    /\ ~calc.called
    /\ LET c == compress_video(write(<<>>, calc_input, 80 * MB), calc_input,
                               compressed_path_of(calc_input),
                               calc.target_size_mb, calc.probe, enc) IN
        calc' = [calc EXCEPT !.called = TRUE, !.ret = c.ret, !.raised = c.raised,
                             !.cmd = c.cmd,
                             !.exit = IF c.cmd = <<>> THEN "" ELSE enc.exit,
                             !.out = IF c.cmd = <<>> THEN NoOutput ELSE enc.out]
    /\ UNCHANGED <<user_video_info, fs, task, reply, nRuns, formats,
                   video_formats, keyboard, progress, render>>

NextCalc == \E enc \in EncoderOutcomes : CompressCall(enc)

SpecCalc == InitCalc /\ [][NextCalc]_vars

\* ------------------------------- one download and its progress hook
\* the loop clock (seconds) when the download starts, and how far it advances
\* between two invocations of the hook
InitClocks == {5, 100}
Ticks == {0, 10, 11}

\* what the retrieval library reports: bytes so far, and the total, known
\* (total_bytes), estimated (total_bytes_estimate) or neither
DownloadedBytes == {0, 33, 40, 50}
HookTotals ==
    {<<None, None>>, <<<<40>>, None>>, <<None, <<40>>>>, <<None, <<100>>>>, <<<<0>>, <<40>>>>}

\* the events of a transfer whose stream has reached `sofar` bytes: the bytes do
\* not go down, and do not go past a known total
HookEvents(sofar) ==
    {[status |-> "downloading", downloaded_bytes |-> n,
      total_bytes |-> tt[1], total_bytes_estimate |-> tt[2]] :
        n \in {m \in DownloadedBytes : m >= sofar}, tt \in HookTotals}
    \ {e \in [status : {"downloading"}, downloaded_bytes : DownloadedBytes,
              total_bytes : {<<0>>, <<40>>}, total_bytes_estimate : {None, <<40>>}] :
          truthy(e.total_bytes) /\ e.downloaded_bytes > e.total_bytes[1]}

\* line 449: progress_data = {'last_update': 0}; one or two streams to fetch
\* (lines 472, 485: bestaudio, or bestvideo+bestaudio)
InitProgress ==
    /\ user_video_info = <<>>
    /\ fs = <<>>
    /\ task = [r \in Runs |-> IdleTask]
    /\ reply = ""
    /\ nRuns = 0
    /\ formats = <<>>
    /\ video_formats = <<>>
    /\ keyboard = <<>>
    /\ calc = NoCall
    /\ progress \in [clock : InitClocks, last_update : {0}, hooks : {0},
                     streams : {1, 2}, stream : {1}, downloaded : {0},
                     notes : {<<>>}]
    /\ render = NoRender

\* yt-dlp calls progress_hook(d) with d['status'] = 'downloading'
ProgressHook(dt, d) ==
    /\ progress.hooks < MaxHooks
    /\ progress.stream \in 1..progress.streams
    /\ d \in HookEvents(progress.downloaded)
    /\ LET now == progress.clock + dt
           h == progress_hook(progress.last_update, d, now) IN
        progress' = [progress EXCEPT !.clock = now,
                                     !.hooks = @ + 1,
                                     !.last_update = h.last_update,
                                     !.downloaded = d.downloaded_bytes,
                                     !.notes = @ \o h.emitted]
    /\ UNCHANGED <<user_video_info, fs, task, reply, nRuns, formats,
                   video_formats, keyboard, calc, render>>

\* yt-dlp calls progress_hook(d) with d['status'] = 'finished' at the end of a
\* stream; the next stream, if any, starts from 0 bytes
StreamFinished(dt) ==
    /\ progress.hooks < MaxHooks
    /\ progress.stream \in 1..progress.streams
    /\ LET now == progress.clock + dt
           d == [status |-> "finished", downloaded_bytes |-> progress.downloaded,
                 total_bytes |-> <<progress.downloaded>>, total_bytes_estimate |-> None]
           h == progress_hook(progress.last_update, d, now) IN
        progress' = [progress EXCEPT !.clock = now,
                                     !.hooks = @ + 1,
                                     !.last_update = h.last_update,
                                     !.stream = @ + 1,
                                     !.downloaded = 0,
                                     !.notes = @ \o h.emitted]
    /\ UNCHANGED <<user_video_info, fs, task, reply, nRuns, formats,
                   video_formats, keyboard, calc, render>>

NextProgress ==
    \/ \E dt \in Ticks : \E d \in HookEvents(progress.downloaded) : ProgressHook(dt, d)
    \/ \E dt \in Ticks : StreamFinished(dt)

SpecProgress == InitProgress /\ [][NextProgress]_vars

\* ------------------------- one run and the edits of its chat message
\* The download (line 342) blocks the event loop, so the tasks progress_hook
\* creates with asyncio.create_task (line 464) start only once the handler is
\* suspended at its next await; nothing awaits them.  From then on their
\* requests and the handler's own edit_message_text requests are in flight
\* together and Telegram applies them in the order they arrive.

\* the loop clock when the download starts
RenderClock == 100

\* what the hook is called with during the run's download: a total that is
\* known or not, 10 or 11 seconds after the call before
RenderEvents ==
    [dt : {RATE_LIMIT_S, RATE_LIMIT_S + 1},
     d  : {[status |-> "downloading", downloaded_bytes |-> 33,
            total_bytes |-> tb, total_bytes_estimate |-> None] : tb \in {None, <<40>>}}]

\* the notifications progress_hook schedules over the hook calls evs
RECURSIVE run_hooks(_, _, _)
run_hooks(evs, last_update, clock) ==
    IF evs = <<>> THEN <<>>
    ELSE LET now == clock + Head(evs).dt
             h == progress_hook(last_update, Head(evs).d, now)
         IN  h.emitted \o run_hooks(Tail(evs), h.last_update, now)

\* the edits of the chat message: the handler's status texts and the progress
\* bars, the i-th scheduled by the hook
StatusMsg(name) == <<"status", name>>
ProgressMsg(i) == <<"progress", i>>

Statuses ==
    {"DownloadFailed", "Compressing", "CompressionFailed", "StillTooLarge",
     "Uploading", "Success", "Error"}
RenderMsgs == {StatusMsg(n) : n \in Statuses} \cup {ProgressMsg(i) : i \in 1..MaxEvents}

\* lines 344, 353: the status the handler awaits first after the download
status_after_download(result) ==
    CASE result = "failed" -> "DownloadFailed"
      [] result = "large"  -> "Compressing"
      [] result = "small"  -> "Uploading"

\* where the handler goes when the await of `status` is over (ok: it returned,
\* ~ok: it raised): the next pc and the next status it awaits
after_status(status, ok) ==
    IF status = "Error" THEN {[pc |-> "done", status |-> ""]}
    ELSE IF ~ok THEN {[pc |-> "await", status |-> "Error"]}
    ELSE CASE status = "DownloadFailed" -> {[pc |-> "done", status |-> ""]}
           [] status = "Compressing" ->
                {[pc |-> "await", status |-> n] :
                    n \in {"CompressionFailed", "StillTooLarge", "Uploading"}}
           [] status = "Uploading" ->
                {[pc |-> "sending", status |-> ""], [pc |-> "await", status |-> "Error"]}
           [] status \in {"CompressionFailed", "StillTooLarge", "Success"} ->
                {[pc |-> "done", status |-> ""], [pc |-> "await", status |-> "Error"]}
           [] OTHER -> {}

\* line 333 has been rendered, line 342 is about to run
InitRender ==
    /\ user_video_info = <<>>
    /\ fs = <<>>
    /\ task = [r \in Runs |-> IdleTask]
    /\ reply = ""
    /\ nRuns = 0
    /\ formats = <<>>
    /\ video_formats = <<>>
    /\ keyboard = <<>>
    /\ calc = NoCall
    /\ progress = NoDownload
    /\ render = [NoRender EXCEPT !.pc = "download"]

\* line 342 (the blocking download with its hook calls evs) up to the next
\* await (line 345, 354 or 406): the handler's request leaves, and it suspends
RenderDownload(evs, result) ==
    /\ render.pc = "download"
    /\ LET notes == run_hooks(evs, 0, RenderClock)
           status == status_after_download(result) IN
        render' = [render EXCEPT !.pc = "await",
                                 !.status = status,
                                 !.scheduled = [i \in 1..Len(notes) |-> ProgressMsg(i)],
                                 !.inflight = {StatusMsg(status)}]
    /\ UNCHANGED <<user_video_info, fs, task, reply, nRuns, formats,
                   video_formats, keyboard, calc, progress>>

\* the loop runs the next task created at line 464: its request leaves
TaskStarts ==
    /\ render.pc \in {"await", "sending", "done"}
    /\ render.scheduled # <<>>
    /\ render' = [render EXCEPT !.scheduled = Tail(@),
                                !.inflight = @ \cup {Head(render.scheduled)}]
    /\ UNCHANGED <<user_video_info, fs, task, reply, nRuns, formats,
                   video_formats, keyboard, calc, progress>>

\* Telegram applies an edit that is in flight
Rendered(m) ==
    /\ m \in render.inflight
    /\ render' = [render EXCEPT !.inflight = @ \ {m},
                                !.rendered = Append(@, m)]
    /\ UNCHANGED <<user_video_info, fs, task, reply, nRuns, formats,
                   video_formats, keyboard, calc, progress>>

\* the handler's await of its status is over: the edit was applied (ok) or the
\* request failed (~ok); the handler runs on to its next await, or ends
StatusAwaited(ok, nxt) ==
    /\ render.pc = "await"
    /\ IF ok THEN StatusMsg(render.status) \notin render.inflight
             ELSE StatusMsg(render.status) \in render.inflight
    /\ nxt \in after_status(render.status, ok)
    /\ render' = [render EXCEPT !.pc = nxt.pc,
                                !.status = nxt.status,
                                !.inflight = (@ \ {StatusMsg(render.status)})
                                    \cup (IF nxt.pc = "await"
                                          THEN {StatusMsg(nxt.status)} ELSE {})]
    /\ UNCHANGED <<user_video_info, fs, task, reply, nRuns, formats,
                   video_formats, keyboard, calc, progress>>

\* lines 414 / 423: the awaited send is over; line 431 or line 443 is next
RenderSent(ok) ==
    /\ render.pc = "sending"
    /\ render' = [render EXCEPT !.pc = "await",
                                !.status = IF ok THEN "Success" ELSE "Error",
                                !.inflight = @ \cup
                                    {StatusMsg(IF ok THEN "Success" ELSE "Error")}]
    /\ UNCHANGED <<user_video_info, fs, task, reply, nRuns, formats,
                   video_formats, keyboard, calc, progress>>

NextRender ==
    \/ \E n \in 0..MaxEvents : \E evs \in [1..n -> RenderEvents] :
          \E result \in {"failed", "large", "small"} : RenderDownload(evs, result)
    \/ TaskStarts
    \/ \E m \in RenderMsgs : Rendered(m)
    \/ \E ok \in BOOLEAN :
          \E nxt \in [pc : {"await", "sending", "done"}, status : Statuses \cup {""}] :
             StatusAwaited(ok, nxt)
    \/ \E ok \in BOOLEAN : RenderSent(ok)

SpecRender == InitRender /\ [][NextRender]_vars

\* ============================================================== properties
Limit == TELEGRAM_FILE_LIMIT_MB * MB

InLog(r, e) == \E i \in 1..Len(task[r].log) : task[r].log[i] = e

\* the path the download of run r writes, and its compressed companion
OriginalPath(r) == output_path(task[r].chat_id, TitleOf(task[r].url), task[r].quality_data)

\* run r takes a step
Steps(r) == task'[r] # task[r]

\* run r takes the step that ends it
Ends(r) == task[r].pc # "idle" /\ task'[r].pc = "idle"

\* no other run is in flight
Alone(r) == \A s \in Runs \ {r} : task[s].pc = "idle"

\* the files of the working folder that belong to the Session run r started from
SessionFiles(f, r) ==
    {p \in DOMAIN f : p[1] = task[r].chat_id /\ p[2] = TitleOf(task[r].url)}

\* C1: while a file is being sent (send_video / send_audio awaited), its measured
\* size is at most the ceiling, for the original and for the compressed file.
C1_UploadWithinCeiling ==
    \A r \in Runs :
        task[r].pc = "sending" =>
            /\ task[r].file_size <= Limit
            /\ task[r].file_path \in {OriginalPath(r), compressed_path_of(OriginalPath(r))}

C1_Witness ==
    \E r \in Runs :
        /\ task[r].pc = "sending"
        /\ InLog(r, "compress")
        /\ task[r].file_path = compressed_path_of(OriginalPath(r))
        /\ task[r].file_size = Limit

\* C2 (as claimed): when a run ends after reporting Delivered, DownloadFailed,
\* CompressionFailed or StillTooLarge, with no other run in flight, the working
\* folder holds no file of that Session.
C2_NoFilesAfterTerminal ==
    [][\A r \in Runs :
          (/\ Ends(r)
           /\ Alone(r)
           /\ task[r].pc \in {"success_msg", "dlfailed_msg", "compfailed_msg",
                              "toolarge_msg"})
          => SessionFiles(fs', r) = {}]_vars

\* C3 (as claimed): when a run ends after reporting Delivered, DownloadFailed,
\* CompressionFailed or StillTooLarge, user_video_info holds no entry for the
\* requester.
C3_SessionClearedAfterTerminal ==
    [][\A r \in Runs :
          (/\ Ends(r)
           /\ task[r].pc \in {"success_msg", "dlfailed_msg", "compfailed_msg",
                              "toolarge_msg"})
          => task[r].chat_id \notin DOMAIN user_video_info']_vars

C5_SizeCeilingRouting ==
    /\ [](/\ ~needs_compression(49 * MB)
          /\ ~needs_compression(50 * MB)
          /\ needs_compression(51 * MB))
    /\ [][\A r \in Runs :
            (/\ task[r].pc = "downloading_msg"
             /\ task'[r].pc \in {"compressing_msg", "uploading_msg"})
            => (/\ (task'[r].pc = "compressing_msg") <=> (task'[r].file_size > Limit)
                /\ task'[r].file_path \in DOMAIN fs'
                /\ fs'[task'[r].file_path] = task'[r].file_size)]_vars
    /\ [][\A r \in Runs :
            (Len(task'[r].log) > Len(task[r].log)
             /\ task'[r].log[Len(task'[r].log)] = "compress")
            => (task[r].pc = "compressing_msg" /\ task[r].file_size > Limit)]_vars
    /\ [](\A r \in Runs :
            (task[r].pc \in {"uploading_msg", "sending", "success_msg"}
             /\ ~InLog(r, "compress"))
            => task[r].file_size <= Limit)

C5_Witness ==
    /\ \E r \in Runs : task[r].pc = "sending" /\ ~InLog(r, "compress")
                       /\ task[r].file_size = Limit
    /\ \E r \in Runs : task[r].pc = "uploading_msg" /\ InLog(r, "compress")

\* C6 (as claimed): a run whose compressed file still exceeds the ceiling ends,
\* with no other run in flight, with neither the compressed nor the original
\* file on disk and with the Session cleared; it never starts an upload.
C6_StillTooLargeCleansUp ==
    /\ [](\A r \in Runs :
            (task[r].pc = "toolarge_msg" \/ task[r].raised_at = "toolarge_msg")
            => ~InLog(r, "upload"))
    /\ [][\A r \in Runs :
            (/\ Ends(r)
             /\ Alone(r)
             /\ (task[r].pc = "toolarge_msg" \/ task[r].raised_at = "toolarge_msg"))
            => (/\ task[r].file_path \notin DOMAIN fs'
                /\ OriginalPath(r) \notin DOMAIN fs'
                /\ task[r].chat_id \notin DOMAIN user_video_info')]_vars

\* C7: within a run the download, the compression and the upload happen in that
\* order, one after the other; when the upload starts after a compression, the
\* original has been removed before and the file sent is the compressed one.
AllowedLogs ==
    {<<>>, <<"download">>, <<"download", "upload">>, <<"download", "compress">>,
     <<"download", "compress", "remove_original">>,
     <<"download", "compress", "remove_original", "upload">>}

C7_PipelineOrder ==
    /\ [](\A r \in Runs :
            /\ task[r].log \in AllowedLogs
            /\ task[r].pc \in {"sending", "success_msg"} =>
                  /\ InLog(r, "upload")
                  /\ task[r].file_path =
                        IF InLog(r, "compress")
                        THEN compressed_path_of(OriginalPath(r))
                        ELSE OriginalPath(r)
            /\ task[r].pc = "compressing_msg" => task[r].log = <<"download">>
            /\ task[r].pc = "downloading_msg" => task[r].log = <<>>)
    /\ [][\A r \in Runs :
            (/\ task[r].pc = "compressing_msg"
             /\ task'[r].pc \in {"uploading_msg", "toolarge_msg"})
            => (/\ OriginalPath(r) \notin DOMAIN fs'
                /\ task'[r].file_path \in DOMAIN fs')]_vars
    /\ [][\A r \in Runs :
            (task[r].pc = "uploading_msg" /\ task'[r].pc = "sending")
            => task[r].file_path \in DOMAIN fs]_vars

C7_Witness ==
    \E r \in Runs :
        /\ task[r].pc = "sending"
        /\ task[r].log = <<"download", "compress", "remove_original", "upload">>
        /\ OriginalPath(r) \notin DOMAIN fs
        /\ task[r].file_path \in DOMAIN fs

\* C8: for every probed duration > 0 and target > 0, the video bitrate given to
\* the encoder is max(floor(target * 8192 / duration) - 128, 100), so at least
\* 100; (600 s, 45 MB) gives 486 and (300 s, 45 MB) gives 1100.
FloorBitrate(target_size_mb, duration_ms) ==
    LET total == (target_size_mb * 8192 * 1000) \div duration_ms IN
    IF total - 128 >= 100 THEN total - 128 ELSE 100

C8_BitrateFormula ==
    /\ video_bitrate(45, 600000) = 486
    /\ video_bitrate(45, 300000) = 1100
    /\ (calc.called /\ calc.probe # None /\ calc.probe[1] > 0) =>
          /\ calc.cmd = <<FloorBitrate(calc.target_size_mb, calc.probe[1])>>
          /\ calc.cmd[1] >= 100

C8_Witness ==
    /\ calc.called
    /\ calc.probe = <<1800000>>
    /\ calc.target_size_mb = 45
    /\ calc.cmd = <<100>>

\* C9: the catalog has exactly one entry per distinct non-null height among the
\* formats with both streams, taken from the first such format of the list; the
\* buttons are in strictly descending height and the audio button is the last.
BothStreams(i) == formats[i].vcodec # "none" /\ formats[i].acodec # "none"

OfferedHeights ==
    {formats[i].height[1] :
        i \in {j \in 1..Len(formats) : BothStreams(j) /\ formats[j].height # None}}

FirstWith(h) ==
    CHOOSE i \in 1..Len(formats) :
        /\ BothStreams(i) /\ formats[i].height = <<h>>
        /\ \A j \in 1..(i - 1) : ~(BothStreams(j) /\ formats[j].height = <<h>>)

C9_VariantCatalog ==
    keyboard # <<>> =>
        LET n == Len(keyboard) IN
        /\ n = Cardinality(OfferedHeights) + 1
        /\ keyboard[n] = audio_button
        /\ {keyboard[i].height : i \in 1..(n - 1)} = OfferedHeights
        /\ \A i \in 1..(n - 1) : keyboard[i].data = <<"quality", "video">>
        /\ \A i \in 1..(n - 1) : \A j \in (i + 1)..(n - 1) :
                keyboard[i].height > keyboard[j].height
        /\ DOMAIN video_formats = OfferedHeights
        /\ \A i \in 1..(n - 1) :
              LET h == keyboard[i].height
                  first == formats[FirstWith(h)] IN
              /\ video_formats[h].format_id = first.format_id
              /\ keyboard[i].filesize = filesize_of(first)

C9_Witness ==
    /\ Len(formats) = 4
    /\ \A i \in 1..4 : BothStreams(i)
    /\ [i \in 1..4 |-> formats[i].height] = <<<<1080>>, <<720>>, <<1080>>, <<480>>>>
    /\ Len(keyboard) = 4
    /\ [i \in 1..3 |-> keyboard[i].height] = <<1080, 720, 480>>
    /\ keyboard[4] = audio_button
    /\ video_formats[1080].format_id = 1

\* C10: when the send fails, the run goes to the except block and ends there;
\* neither step deletes a file or touches the session store.
C10_UploadFailedGap ==
    /\ [][\A r \in Runs :
            (task[r].pc = "sending" /\ Steps(r) /\ task'[r].pc # "success_msg")
            => (/\ task'[r].pc = "error_msg"
                /\ task'[r].raised_at = "sending"
                /\ fs' = fs
                /\ user_video_info' = user_video_info)]_vars
    /\ [][\A r \in Runs :
            (task[r].pc = "error_msg" /\ task[r].raised_at = "sending" /\ Steps(r))
            => (/\ task'[r] = IdleTask
                /\ fs' = fs
                /\ user_video_info' = user_video_info)]_vars

C10_Witness ==
    \E r \in Runs :
        /\ task[r].pc = "error_msg"
        /\ task[r].raised_at = "sending"
        /\ task[r].file_path \in DOMAIN fs
        /\ task[r].chat_id \in DOMAIN user_video_info

\* the exact percentage of the first notification is at most that of the second
PercentLeq(a, b) == a.downloaded * b.total <= b.downloaded * a.total

\* C11: any two notifications scheduled by the hook during one download are at
\* least 10 seconds of loop clock apart, whatever the hook was called with in
\* between (also calls with no total, which schedule nothing).
C11_ProgressRateLimit ==
    \A i \in 1..Len(progress.notes) : \A j \in (i + 1)..Len(progress.notes) :
        progress.notes[j].time - progress.notes[i].time >= RATE_LIMIT_S

C11_Witness ==
    /\ Len(progress.notes) = 2
    /\ progress.notes[2].time - progress.notes[1].time = RATE_LIMIT_S + 1
    /\ progress.last_update > progress.notes[2].time

\* C12 (as claimed): the percentages of the notifications of one download never
\* go down.
C12_ProgressMonotone ==
    \A i \in 1..Len(progress.notes) : \A j \in (i + 1)..Len(progress.notes) :
        PercentLeq(progress.notes[i], progress.notes[j])

\* C19 (as claimed): every notification's bar has 20 segments, of which
\* floor(percent / 5) are filled.
C19_BarWidth ==
    \A i \in 1..Len(progress.notes) :
        LET n == progress.notes[i] IN
        /\ n.bar.filled + n.bar.empty = BAR_SEGMENTS
        /\ n.bar.filled = (n.downloaded * 100) \div (n.total * SEGMENT_PERCENT)

\* C15 (as claimed): when the probe gives no duration, or one that is zero or
\* negative, compress_video returns false and the encoder is not invoked.
C15_InvalidDurationAborts ==
    (calc.called /\ (calc.probe = None \/ calc.probe[1] <= 0)) =>
        /\ ~calc.ret
        /\ calc.cmd = <<>>

\* C16: compress_video never raises to its caller and invokes the encoder at most
\* once; it returns true only after an exit code of 0, and false on a timeout, on
\* a non-zero exit, and when anything else fails (no duration, no output file).
C16_EngineResult ==
    calc.called =>
        /\ ~calc.raised
        /\ Len(calc.cmd) <= 1
        /\ calc.ret => (Len(calc.cmd) = 1 /\ calc.exit = "zero")
        /\ calc.exit \in {"nonzero", "timeout"} => ~calc.ret
        /\ calc.cmd = <<>> => ~calc.ret
        /\ (calc.exit = "zero" /\ calc.out = NoOutput) => ~calc.ret

C16_Witness ==
    /\ calc.called
    /\ calc.exit = "timeout"
    /\ calc.out = PartialOutput
    /\ Len(calc.cmd) = 1
    /\ ~calc.ret

\* the file run r holds on disk
HeldPaths(r) == {task[r].file_path} \cap DOMAIN fs

\* C13 (as claimed): two runs in flight never hold the same file path, and no
\* step of a run deletes or overwrites the file another run in flight holds.
C13_FileOwnership ==
    /\ [](\A r \in Runs : \A s \in Runs \ {r} : HeldPaths(r) \cap HeldPaths(s) = {})
    /\ [][\A r \in Runs :
            Steps(r) =>
                \A s \in Runs \ {r} : \A p \in HeldPaths(s) :
                    p \in DOMAIN fs' /\ fs'[p] = fs[p]]_vars

\* C14 (as claimed): a run whose compression failed never starts an upload and
\* ends, with no other run in flight, with the original file deleted and the
\* Session cleared.
C14_CompressionFailedCleansUp ==
    /\ [](\A r \in Runs :
            (task[r].pc = "compfailed_msg" \/ task[r].raised_at = "compfailed_msg")
            => ~InLog(r, "upload"))
    /\ [][\A r \in Runs :
            (/\ Ends(r)
             /\ Alone(r)
             /\ (task[r].pc = "compfailed_msg" \/ task[r].raised_at = "compfailed_msg"))
            => (/\ OriginalPath(r) \notin DOMAIN fs'
                /\ task[r].chat_id \notin DOMAIN user_video_info')]_vars

\* C17 (as claimed): after a URL submission that ended in "could not fetch" or
\* in "no options found", the session store holds no Session of the requester.
C17_SessionOnlyWhenOffered ==
    reply \in {"MetadataUnavailable", "NoOptions"} => user_video_info = <<>>

\* the reports of the failures other than UploadFailed
FailureReports == {"dlfailed_msg", "compfailed_msg", "toolarge_msg"}

\* C18 (as claimed): when a run comes to report a failure other than
\* UploadFailed, its file is already deleted and the Session already cleared;
\* and a run whose failure report itself failed ends, with no other run in
\* flight, with no file of its Session on disk and no Session.
C18_CleanupBeforeReport ==
    /\ [][\A r \in Runs :
            (task[r].pc \notin FailureReports /\ task'[r].pc \in FailureReports)
            => (/\ task'[r].file_path \notin DOMAIN fs'
                /\ task'[r].chat_id \notin DOMAIN user_video_info')]_vars
    /\ [][\A r \in Runs :
            (/\ Ends(r)
             /\ Alone(r)
             /\ task[r].pc = "error_msg"
             /\ task[r].raised_at \in FailureReports)
            => (/\ task[r].file_path \notin DOMAIN fs'
                /\ task[r].chat_id \notin DOMAIN user_video_info')]_vars

\* C20 (as claimed): the step that ends a run leaves a Session of another URL
\* in place; and a run that has rendered Success does not go to the error
\* report once its cleanup has begun.
C20_OwnSessionOnly ==
    /\ [][\A r \in Runs :
            (/\ Ends(r)
             /\ task[r].chat_id \in DOMAIN user_video_info
             /\ user_video_info[task[r].chat_id].url # task[r].url)
            => (/\ task[r].chat_id \in DOMAIN user_video_info'
                /\ user_video_info'[task[r].chat_id] = user_video_info[task[r].chat_id])]_vars
    /\ [][\A r \in Runs :
            (task[r].pc = "success_msg" /\ task'[r].pc = "error_msg")
            => fs' = fs]_vars

\* C21 (as claimed): once a status of a later stage has been rendered, no
\* progress bar is rendered after it; so when the run is over the message shows
\* the last status, not a progress bar.
C21_NoStaleProgress ==
    /\ \A i \in 1..Len(render.rendered) : \A j \in (i + 1)..Len(render.rendered) :
          render.rendered[i][1] = "status" => render.rendered[j][1] # "progress"
    /\ (render.pc = "done" /\ render.rendered # <<>>) =>
          render.rendered[Len(render.rendered)][1] = "status"

====
